---- MODULE Spec2Model ----
(***************************************************************************)
(* Seat allocation and subscription ledger of the library management       *)
(* system: the relational tables (libraries, shifts, seats,                *)
(* seat_allocations, students, subscriptions, payments), the storage       *)
(* operations of DatabaseStorage and the HTTP handlers of server/routes.ts *)
(* that call them.                                                         *)
(*                                                                         *)
(* Rows are never hard-deleted.  A table is a function from the serial id  *)
(* of a row to the row.  idSeq holds the sequences behind the serial ids   *)
(* of the tables whose inserts can be refused: an insert takes the next    *)
(* value of the sequence before its constraints are tested, and a refused  *)
(* insert does not give the value back, so the ids of a table have gaps.   *)
(* The libraries, shifts and seats tables are sequences: no insert into    *)
(* them is refused.  Amounts of money are integers, which the              *)
(* decimal(10,2) columns hold exactly.  Clock times HH:MM are the integers *)
(* HHMM, whose order is the lexicographic order of the strings.            *)
(*                                                                         *)
(* A handler awaits the storage at every statement, and nothing is in a    *)
(* transaction: every action below is one statement of one request (with   *)
(* the computation of the handler up to its next statement), and the       *)
(* statements of requests that overlap interleave.  inflight holds, for    *)
(* every client connection, the request it is handling: its position, its  *)
(* inputs, its local values and, when it is done, its answer.  The field   *)
(* before of a request is a history value: the tables the request found    *)
(* when it arrived.                                                        *)
(***************************************************************************)
EXTENDS Integers, Sequences, FiniteSets, TLC

VARIABLES libraries, shifts, seats, seatAllocations, students, subscriptions, payments, idSeq, inflight

vars == <<libraries, shifts, seats, seatAllocations, students, subscriptions, payments, idSeq, inflight>>

(***************************************************************************)
(* Bounds of the model.                                                    *)
(***************************************************************************)
MaxLibraries == 3
MaxStudents == 2
MaxSubscriptions == 3
MaxPayments == 2
MaxAllocations == 2
TotalSeats == 2
\* The inserts a table may refuse.
MaxRefused == 1

(***************************************************************************)
(* Request inputs.                                                         *)
(***************************************************************************)
\* The libraries onboarded before the first request.
Libraries == {1, 2}
Genders == {"male", "female"}
\* The cost, the amount paid and the discount of a registration or a renewal.
Plans == {[cost |-> 1000, paid |-> 400, discount |-> 0],
          [cost |-> 1000, paid |-> 0, discount |-> 300]}
PaymentAmounts == {100, 700}
\* Dates are day numbers.  The start and the end of a plan, and the day a payment
\* is entered by hand.
Periods == {[start |-> 10, end |-> 40], [start |-> 20, end |-> 50]}
RequestPeriod == [start |-> 10, end |-> 40]
PaymentDates == {15}

Max(a, b) == IF a >= b THEN a ELSE b

\* The value of a column, or of a field of a request, that is not set.
NULL == 0

\* The client connections: requests of different connections overlap, the
\* requests of one connection follow one another.
Requests == {1, 2}
\* The connection of a client that sends its requests one after the other.
Sequential == {1}

(***************************************************************************)
(* Onboarding: every library gets the same four shifts and totalSeats      *)
(* seats, all vacant.                                                      *)
(***************************************************************************)
shiftData ==
    << [name |-> "Morning",   startTime |-> 600,  endTime |-> 1200, totalHours |-> 6],
       [name |-> "Afternoon", startTime |-> 1200, endTime |-> 1800, totalHours |-> 6],
       [name |-> "Evening",   startTime |-> 1800, endTime |-> 0,    totalHours |-> 6],
       [name |-> "Night",     startTime |-> 0,    endTime |-> 600,  totalHours |-> 6] >>

\* The row createLibrary inserts.
libraryRow(totalSeats) == [totalSeats |-> totalSeats, isActive |-> TRUE]

\* The row createShift inserts for the k-th shift of a library.
shiftRow(libraryId, k) ==
    [libraryId  |-> libraryId,
     name       |-> shiftData[k].name,
     startTime  |-> shiftData[k].startTime,
     endTime    |-> shiftData[k].endTime,
     totalHours |-> shiftData[k].totalHours,
     isActive   |-> TRUE]

\* The row createSeat inserts for the i-th seat of a library.
seatRow(libraryId, i) ==
    [libraryId |-> libraryId, seatNumber |-> i, status |-> "vacant", isActive |-> TRUE]

\* The libraries, shifts and seats tables after n libraries were onboarded one
\* after the other with totalSeats seats each.
onboardedLibraries(n, totalSeats) == [k \in 1..n |-> libraryRow(totalSeats)]

onboardedShifts(n) ==
    [k \in 1..(n * Len(shiftData)) |->
        shiftRow(((k - 1) \div Len(shiftData)) + 1, ((k - 1) % Len(shiftData)) + 1)]

onboardedSeats(n, totalSeats) ==
    [k \in 1..(n * totalSeats) |->
        seatRow(((k - 1) \div totalSeats) + 1, ((k - 1) % totalSeats) + 1)]

(***************************************************************************)
(* Schema: the foreign keys and the unique constraint an insert or an      *)
(* update must meet.  A violated constraint makes the statement throw.     *)
(***************************************************************************)
\* As studentInsertOk, without the unique constraint on the student code.
studentInsertOk_NoUnique(studs, row) ==
    row.libraryId \in DOMAIN libraries

studentInsertOk(studs, row) ==
    /\ row.libraryId \in DOMAIN libraries
    /\ \A i \in DOMAIN studs : studs[i].studentId # row.studentId

\* An update of the student row id, if there is one, must keep the student codes
\* unique and name a library that exists.
studentUpdateOk(studs, id, data) ==
    id \in DOMAIN studs =>
        /\ "studentId" \in DOMAIN data =>
              \A i \in DOMAIN studs : i # id => studs[i].studentId # data.studentId
        /\ "libraryId" \in DOMAIN data => data.libraryId \in DOMAIN libraries

\* As subscriptionInsertOk, but a seat is taken as a whole: the insert is refused
\* when the seat has an active occupied allocation in any shift.
subscriptionInsertOk_SeatWide(studs, row) ==
    /\ row.libraryId \in DOMAIN libraries
    /\ row.studentId \in DOMAIN studs
    /\ row.seatId \in DOMAIN seats
    /\ \A a \in DOMAIN seatAllocations :
          ~(/\ seatAllocations[a].seatId = row.seatId
            /\ seatAllocations[a].status = "occupied"
            /\ seatAllocations[a].isActive)

subscriptionInsertOk(studs, row) ==
    /\ row.libraryId \in DOMAIN libraries
    /\ row.studentId \in DOMAIN studs
    /\ row.seatId \in DOMAIN seats

\* An update of the subscription row id, if there is one, must name rows that
\* exist.
subscriptionUpdateOk(subs, id, data) ==
    id \in DOMAIN subs =>
        /\ "libraryId" \in DOMAIN data => data.libraryId \in DOMAIN libraries
        /\ "studentId" \in DOMAIN data => data.studentId \in DOMAIN students
        /\ "seatId" \in DOMAIN data => data.seatId \in DOMAIN seats

paymentInsertOk(subs, row) ==
    /\ row.libraryId \in DOMAIN libraries
    /\ row.studentId \in DOMAIN students
    /\ row.subscriptionId \in DOMAIN subs

\* The student of an allocation may be left unset.
seatAllocationInsertOk(row) ==
    /\ row.seatId \in DOMAIN seats
    /\ row.shiftId \in DOMAIN shifts
    /\ row.studentId = NULL \/ row.studentId \in DOMAIN students

(***************************************************************************)
(* DatabaseStorage: reads.                                                 *)
(***************************************************************************)
getShiftsByLibrary(libraryId) ==
    {k \in DOMAIN shifts : shifts[k].libraryId = libraryId /\ shifts[k].isActive}

\* The rows of the active seats of a library, by their id.
getSeatsByLibrary(libraryId) ==
    [k \in {s \in DOMAIN seats : seats[s].libraryId = libraryId /\ seats[s].isActive}
        |-> seats[k]]

\* As getVacantSeatsForShifts, but a seat is left out only when it is occupied in
\* every requested shift.
getVacantSeatsForShifts_EveryShift(allSeats, allocs, shiftIds) ==
    LET occupiedIn(s, sh) ==
            \E a \in DOMAIN allocs :
                /\ allocs[a].seatId = s
                /\ allocs[a].shiftId = sh
                /\ allocs[a].status = "occupied"
                /\ allocs[a].isActive
    IN  {s \in DOMAIN allSeats :
            /\ \E sh \in shiftIds : ~occupiedIn(s, sh)
            /\ allSeats[s].status = "vacant"}

\* The second statement of getVacantSeatsForShifts and its filter: allSeats are
\* the rows its first statement, getSeatsByLibrary, returned.
getVacantSeatsForShifts(allSeats, allocs, shiftIds) ==
    LET occupiedAllocations ==
            {a \in DOMAIN allocs :
                /\ allocs[a].shiftId \in shiftIds
                /\ allocs[a].status = "occupied"
                /\ allocs[a].isActive}
        occupiedSeatIds == {allocs[a].seatId : a \in occupiedAllocations}
    IN  {s \in DOMAIN allSeats : s \notin occupiedSeatIds /\ allSeats[s].status = "vacant"}

\* The decimal digits of a natural number, as String(n) writes them.
RECURSIVE String(_)
String(n) == IF n < 10 THEN <<n>> ELSE Append(String(n \div 10), n % 10)

\* padStart: fill is put in front of str until it has targetLength characters.
RECURSIVE padStart(_, _, _)
padStart(str, targetLength, fill) ==
    IF Len(str) >= targetLength THEN str
    ELSE padStart(<<fill>> \o str, targetLength, fill)

\* The next student code: STD followed by the digits, padded to six, of one more
\* than the greatest id of the students table (of all libraries, soft-deleted
\* rows included).
generateStudentId(studs) ==
    LET ids == DOMAIN studs
        maxId == IF ids = {} THEN 0 ELSE CHOOSE m \in ids : \A i \in ids : i <= m
        nextId == maxId + 1
    IN  [prefix |-> "STD", digits |-> padStart(String(nextId), 6, 0)]

\* As getActiveSubscriptionByStudent, without the condition on the status.
getActiveSubscriptionByStudent_AnyStatus(studentId) ==
    {i \in DOMAIN subscriptions :
        /\ subscriptions[i].studentId = studentId
        /\ subscriptions[i].isActive}

\* The rows a renewal may read as the student's active subscription.
getActiveSubscriptionByStudent(studentId) ==
    {i \in DOMAIN subscriptions :
        /\ subscriptions[i].studentId = studentId
        /\ subscriptions[i].status = "active"
        /\ subscriptions[i].isActive}

(***************************************************************************)
(* DatabaseStorage: writes, as functions of the tables they change.        *)
(***************************************************************************)
createLibrary(libs, library) == Append(libs, library)

deleteLibrary(libs, id) ==
    [i \in DOMAIN libs |-> IF i = id THEN [libs[i] EXCEPT !.isActive = FALSE] ELSE libs[i]]

createShift(shs, shift) == Append(shs, shift)

createSeat(sts, seat) == Append(sts, seat)

\* The table with the row stored under the id the sequence gave.
insert(table, id, row) == [i \in DOMAIN table \cup {id} |-> IF i = id THEN row ELSE table[i]]

\* The next value of the sequence of a table.
nextval(table) == idSeq[table] + 1

\* The sequences after the sequence of a table gave its next value.
advanced(table) == [idSeq EXCEPT ![table] = nextval(table)]

\* The bound of the model on an insert: the table named name, whose rows are
\* table, holds fewer than max rows, and its sequence has ids left.
room(name, table, max) ==
    /\ Cardinality(DOMAIN table) < max
    /\ idSeq[name] < max + MaxRefused

createSeatAllocation(allocs, id, data) == insert(allocs, id, data)

\* An allocation without a student is the allocation of no student.
deleteSeatAllocationsForStudent(allocs, studentId) ==
    [a \in DOMAIN allocs |->
        IF allocs[a].studentId # NULL /\ allocs[a].studentId = studentId
        THEN [allocs[a] EXCEPT !.isActive = FALSE]
        ELSE allocs[a]]

createStudent(studs, id, student) == insert(studs, id, student)

\* The update of a library row with the fields of data.
updateLibrary(libs, id, data) ==
    [i \in DOMAIN libs |->
        IF i = id
        THEN [f \in DOMAIN libs[i] |-> IF f \in DOMAIN data THEN data[f] ELSE libs[i][f]]
        ELSE libs[i]]

\* The update of a student row with the fields of data.
updateStudent(studs, id, data) ==
    [i \in DOMAIN studs |->
        IF i = id
        THEN [f \in DOMAIN studs[i] |-> IF f \in DOMAIN data THEN data[f] ELSE studs[i][f]]
        ELSE studs[i]]

createSubscription(subs, id, sub) == insert(subs, id, sub)

\* The update of a subscription row with the fields of data.
updateSubscription(subs, id, data) ==
    [i \in DOMAIN subs |->
        IF i = id
        THEN [f \in DOMAIN subs[i] |-> IF f \in DOMAIN data THEN data[f] ELSE subs[i][f]]
        ELSE subs[i]]

\* As cancelSubscription, but a row that is not active is made active again.
cancelSubscription_Toggles(subs, id) ==
    [i \in DOMAIN subs |->
        IF i = id
        THEN [subs[i] EXCEPT !.status = IF subs[i].status = "active"
                                        THEN "cancelled" ELSE "active"]
        ELSE subs[i]]

\* As cancelSubscription, but the row is marked expired.
cancelSubscription_Expires(subs, id) ==
    [i \in DOMAIN subs |->
        IF i = id THEN [subs[i] EXCEPT !.status = "expired"] ELSE subs[i]]

cancelSubscription(subs, id) ==
    [i \in DOMAIN subs |->
        IF i = id THEN [subs[i] EXCEPT !.status = "cancelled"] ELSE subs[i]]

\* As expireActive, but no row is updated.
expireActive_NoExpire(subs, studentId) == subs

\* As expireActive, without the condition on the student.
expireActive_AnyStudent(subs, studentId) ==
    [i \in DOMAIN subs |->
        IF subs[i].status = "active"
        THEN [subs[i] EXCEPT !.status = "expired"]
        ELSE subs[i]]

\* As expireActive, but the rows are marked renewed.
expireActive_Renewed(subs, studentId) ==
    [i \in DOMAIN subs |->
        IF subs[i].studentId = studentId /\ subs[i].status = "active"
        THEN [subs[i] EXCEPT !.status = "renewed"]
        ELSE subs[i]]

\* The update of renewSubscription: every active row of the student expires.
expireActive(subs, studentId) ==
    [i \in DOMAIN subs |->
        IF subs[i].studentId = studentId /\ subs[i].status = "active"
        THEN [subs[i] EXCEPT !.status = "expired"]
        ELSE subs[i]]

\* As createPayment, but the pending amount is not recomputed.
createPayment_KeepsPending(subs, sub, payment) ==
    [subs EXCEPT ![payment.subscriptionId].paidAmount = sub.paidAmount + payment.amount]

\* As createPayment, but the amount replaces the paid amount.
createPayment_SetsPaid(subs, sub, payment) ==
    LET newPaid == payment.amount
        newPending == sub.subscriptionCost - newPaid - sub.discount
    IN  [subs EXCEPT ![payment.subscriptionId].paidAmount = newPaid,
                     ![payment.subscriptionId].pendingAmount = Max(0, newPending)]

\* The update of createPayment: sub is the row its select returned; the amount of
\* the payment is added to the paid amount of that row and the pending amount is
\* recomputed from it, and both are written to the subscription of the payment.
createPayment(subs, sub, payment) ==
    LET newPaid == sub.paidAmount + payment.amount
        newPending == sub.subscriptionCost - newPaid - sub.discount
    IN  [subs EXCEPT ![payment.subscriptionId].paidAmount = newPaid,
                     ![payment.subscriptionId].pendingAmount = Max(0, newPending)]

(***************************************************************************)
(* Derived display fields of a subscription.                               *)
(***************************************************************************)
RECURSIVE sumTotalHours(_)
sumTotalHours(S) ==
    IF S = {} THEN 0
    ELSE LET k == CHOOSE x \in S : TRUE
         IN  shifts[k].totalHours + sumTotalHours(S \ {k})

\* The earliest start among the selected shifts, 06:00 when none is selected.
shiftStartOf(S) ==
    IF S = {} THEN 600
    ELSE LET k == CHOOSE x \in S : \A y \in S : shifts[x].startTime <= shifts[y].startTime
         IN  shifts[k].startTime

\* The latest end among the selected shifts, 12:00 when none is selected.
shiftEndOf(S) ==
    IF S = {} THEN 1200
    ELSE LET k == CHOOSE x \in S : \A y \in S : shifts[x].endTime >= shifts[y].endTime
         IN  shifts[k].endTime

(***************************************************************************)
(* Init: the database after the libraries were onboarded, and no request.  *)
(***************************************************************************)
Idle == [pc |-> "idle", op |-> "none", status |-> 0]

\* No sequence has given a value.
NoIds == [students |-> 0, subscriptions |-> 0, payments |-> 0, seatAllocations |-> 0]

Init ==
    /\ libraries = onboardedLibraries(Cardinality(Libraries), TotalSeats)
    /\ shifts = onboardedShifts(Cardinality(Libraries))
    /\ seats = onboardedSeats(Cardinality(Libraries), TotalSeats)
    /\ seatAllocations = <<>>
    /\ students = <<>>
    /\ subscriptions = <<>>
    /\ payments = <<>>
    /\ idSeq = NoIds
    /\ inflight = [r \in Requests |-> Idle]

(***************************************************************************)
(* The entry of a request in inflight.                                     *)
(***************************************************************************)
\* A connection takes its next request when it has none or has answered the last.
Free(r) == inflight[r].pc \in {"idle", "done"}

\* The tables a request finds when it arrives.
Snapshot ==
    [students |-> students, subscriptions |-> subscriptions, payments |-> payments]

\* The entry of a request that has just arrived.
Arrived(op, req, pc) ==
    [pc |-> pc, op |-> op, req |-> req, before |-> Snapshot, status |-> 0]

\* The entry of a request that was answered with status.
Respond(me, status) == [me EXCEPT !.pc = "done", !.status = status]

(***************************************************************************)
(* storage.createPayment, as the handlers of registrations, renewals and   *)
(* payments call it: the insert of the payment, the select of the          *)
(* subscription it names, and the update of that subscription with the     *)
(* amounts computed from the selected row.  The caller answers 200 when    *)
(* the call returns and 500 when it throws.                                *)
(***************************************************************************)
\* The insert, for the request of connection r whose entry is me.
InsertPayment(r, me) ==
    /\ room("payments", payments, MaxPayments)
    /\ idSeq' = advanced("payments")
    /\ UNCHANGED <<libraries, shifts, seats, seatAllocations, students, subscriptions>>
    /\ IF ~paymentInsertOk(subscriptions, me.payment)
       THEN /\ UNCHANGED payments
            /\ inflight' = [inflight EXCEPT ![r] = Respond(me, 500)]
       ELSE /\ payments' = insert(payments, nextval("payments"), me.payment)
            /\ inflight' = [inflight EXCEPT ![r] =
                               IF me.payment.subscriptionId # NULL
                               THEN [me EXCEPT !.pc = "createPayment.select"]
                               ELSE Respond(me, 200)]

CreatePaymentInsert(r) ==
    /\ inflight[r].pc = "createPayment"
    /\ InsertPayment(r, inflight[r])

CreatePaymentSelect(r) ==
    LET me == inflight[r]
        id == me.payment.subscriptionId
    IN
    /\ me.pc = "createPayment.select"
    /\ UNCHANGED <<libraries, shifts, seats, seatAllocations, students, subscriptions, payments, idSeq>>
    /\ inflight' = [inflight EXCEPT ![r] =
                       IF id \in DOMAIN subscriptions
                       THEN [me EXCEPT !.pc = "createPayment.update"]
                                @@ [sub |-> subscriptions[id]]
                       ELSE Respond(me, 200)]

CreatePaymentUpdate(r) ==
    LET me == inflight[r] IN
    /\ me.pc = "createPayment.update"
    /\ subscriptions' = createPayment(subscriptions, me.sub, me.payment)
    /\ inflight' = [inflight EXCEPT ![r] = Respond(me, 200)]
    /\ UNCHANGED <<libraries, shifts, seats, seatAllocations, students, payments, idSeq>>

(***************************************************************************)
(* POST /api/students: registration.  The handler reads the next student   *)
(* code, inserts the student, reads the shifts of the library, inserts the *)
(* subscription and, when an amount was paid, calls createPayment; a       *)
(* statement that throws ends the request with 500 and leaves the earlier  *)
(* inserts in place.                                                       *)
(***************************************************************************)
\* The student row a registration inserts, with the generated student code.
registrationStudent(req, studentId) ==
    [libraryId |-> req.libraryId, studentId |-> studentId,
     gender |-> req.gender, status |-> "active", isActive |-> TRUE]

\* The subscription row a registration inserts for the student it created: the
\* hours and the time range come from the shifts of the library that the request
\* selects, the requested shift ids are stored as they are.
registrationData(req, student) ==
    LET selectedShifts == {k \in getShiftsByLibrary(req.libraryId) : k \in req.shiftIds}
        cost == req.subscriptionCost
        paid == req.paidAmount
        disc == req.discount
        pending == Max(0, cost - paid - disc)
    IN  [libraryId |-> req.libraryId, studentId |-> student, seatId |-> req.seatId,
         shiftIds |-> req.shiftIds,
         totalHours |-> sumTotalHours(selectedShifts),
         shiftStart |-> shiftStartOf(selectedShifts),
         shiftEnd |-> shiftEndOf(selectedShifts),
         planStartDate |-> req.planStartDate, planEndDate |-> req.planEndDate,
         subscriptionCost |-> cost, paidAmount |-> paid, discount |-> disc,
         pendingAmount |-> pending, status |-> "active", isActive |-> TRUE]

\* As registrationPayment, but dated at the end of the plan.
registrationPayment_EndDated(req, student, subscription, paid) ==
    [libraryId |-> req.libraryId, studentId |-> student,
     subscriptionId |-> subscription, amount |-> paid,
     paymentDate |-> req.planEndDate]

\* The payment row of the amount paid at registration.
registrationPayment(req, student, subscription, paid) ==
    [libraryId |-> req.libraryId, studentId |-> student,
     subscriptionId |-> subscription, amount |-> paid,
     paymentDate |-> req.planStartDate]

\* The request arrives and reads the next student code.
PostStudents(r, libraryId, shiftIds, seatId, planStartDate, planEndDate, subscriptionCost, paidAmount, discount, gender) ==
    LET req == [libraryId |-> libraryId, shiftIds |-> shiftIds, seatId |-> seatId,
                planStartDate |-> planStartDate, planEndDate |-> planEndDate,
                subscriptionCost |-> subscriptionCost, paidAmount |-> paidAmount,
                discount |-> discount, gender |-> gender]
    IN
    /\ Free(r)
    /\ room("students", students, MaxStudents)
    /\ room("subscriptions", subscriptions, MaxSubscriptions)
    /\ paidAmount > 0 => room("payments", payments, MaxPayments)
    /\ inflight' = [inflight EXCEPT ![r] =
                       Arrived("register", req, "createStudent")
                           @@ [studentId |-> generateStudentId(students),
                               student |-> 0, subscription |-> 0]]
    /\ UNCHANGED <<libraries, shifts, seats, seatAllocations, students, subscriptions, payments, idSeq>>

PostStudentsCreateStudent(r) ==
    LET me == inflight[r]
        studentRow == registrationStudent(me.req, me.studentId)
    IN
    /\ me.pc = "createStudent"
    /\ room("students", students, MaxStudents)
    /\ idSeq' = advanced("students")
    /\ UNCHANGED <<libraries, shifts, seats, seatAllocations, subscriptions, payments>>
    /\ IF ~studentInsertOk(students, studentRow)
       THEN /\ UNCHANGED students
            /\ inflight' = [inflight EXCEPT ![r] = Respond(me, 500)]
       ELSE /\ students' = createStudent(students, nextval("students"), studentRow)
            /\ inflight' = [inflight EXCEPT ![r].pc = "getShiftsByLibrary",
                                            ![r].student = nextval("students")]

\* The shifts are read, and the row of the subscription is computed from them.
PostStudentsGetShiftsByLibrary(r) ==
    LET me == inflight[r] IN
    /\ me.pc = "getShiftsByLibrary"
    /\ inflight' = [inflight EXCEPT ![r] =
                       [me EXCEPT !.pc = "createSubscription"]
                           @@ [data |-> registrationData(me.req, me.student)]]
    /\ UNCHANGED <<libraries, shifts, seats, seatAllocations, students, subscriptions, payments, idSeq>>

\* As registrationAllocations, but the seat is allocated to the student in every
\* requested shift, without a look at the allocations there are.
registrationAllocations_Occupies(allocs, req, studentId) ==
    LET ids == DOMAIN allocs
        maxId == IF ids = {} THEN 0 ELSE CHOOSE m \in ids : \A i \in ids : i <= m
        rank(sh) == Cardinality({t \in req.shiftIds : t <= sh})
    IN  [i \in ids \cup {maxId + rank(sh) : sh \in req.shiftIds} |->
            IF i \in ids
            THEN allocs[i]
            ELSE [seatId |-> req.seatId,
                  shiftId |-> CHOOSE sh \in req.shiftIds : maxId + rank(sh) = i,
                  studentId |-> studentId, status |-> "occupied",
                  gender |-> req.gender, isActive |-> TRUE]]

\* The seat_allocations table after the statements of a registration: the handler
\* calls createStudent, createSubscription and createPayment and no operation on
\* seat allocations, so the table is the one it found.
registrationAllocations(allocs, req, studentId) == allocs

\* The subscription is inserted; with no amount paid the request is answered.
PostStudentsCreateSubscription(r) ==
    LET me == inflight[r]
        paid == me.req.paidAmount
        subscription == nextval("subscriptions")
    IN
    /\ me.pc = "createSubscription"
    /\ room("subscriptions", subscriptions, MaxSubscriptions)
    /\ idSeq' = advanced("subscriptions")
    /\ UNCHANGED <<libraries, shifts, seats, students, payments>>
    /\ IF ~subscriptionInsertOk(students, me.data)
       THEN /\ UNCHANGED <<subscriptions, seatAllocations>>
            /\ inflight' = [inflight EXCEPT ![r] = Respond(me, 500)]
       ELSE /\ subscriptions' = createSubscription(subscriptions, subscription, me.data)
            /\ seatAllocations' = registrationAllocations(seatAllocations, me.req, me.student)
            /\ inflight' = [inflight EXCEPT ![r] =
                  IF paid > 0
                  THEN [me EXCEPT !.pc = "createPayment", !.subscription = subscription]
                           @@ [payment |-> registrationPayment(me.req, me.student,
                                                               subscription, paid)]
                  ELSE Respond([me EXCEPT !.subscription = subscription], 200)]

(***************************************************************************)
(* POST /api/subscriptions/renew/:studentId: renewal.  The handler reads   *)
(* the active subscription of the student, renewSubscription updates the   *)
(* active rows of the student and then inserts the new row, and the        *)
(* handler calls createPayment when an amount was paid.                    *)
(***************************************************************************)
\* The row a renewal inserts: the seat, the shifts, the hours and the time range
\* of the active subscription, the library, the dates and the amounts of the
\* request.
renewalData(activeSub, req, pending) ==
    [libraryId |-> req.libraryId, studentId |-> req.studentId,
     seatId |-> activeSub.seatId,
     shiftIds |-> activeSub.shiftIds,
     totalHours |-> activeSub.totalHours,
     shiftStart |-> activeSub.shiftStart,
     shiftEnd |-> activeSub.shiftEnd,
     planStartDate |-> req.planStartDate,
     planEndDate |-> req.planEndDate,
     subscriptionCost |-> req.subscriptionCost, paidAmount |-> req.paidAmount,
     discount |-> req.discount, pendingAmount |-> pending,
     status |-> "active", isActive |-> TRUE]

\* The payment row of the amount paid at renewal.
renewalPayment(req, subscription, paid) ==
    [libraryId |-> req.libraryId, studentId |-> req.studentId,
     subscriptionId |-> subscription, amount |-> paid,
     paymentDate |-> req.planStartDate]

\* The request arrives and reads the active subscription of the student: any of
\* the rows the select matches may come first.
PostSubscriptionsRenew(r, studentId, libraryId, planStartDate, planEndDate, subscriptionCost, paidAmount, discount) ==
    LET req == [studentId |-> studentId, libraryId |-> libraryId,
                planStartDate |-> planStartDate, planEndDate |-> planEndDate,
                subscriptionCost |-> subscriptionCost, paidAmount |-> paidAmount,
                discount |-> discount]
        pending == Max(0, subscriptionCost - paidAmount - discount)
    IN
    /\ Free(r)
    /\ UNCHANGED <<libraries, shifts, seats, seatAllocations, students, subscriptions, payments, idSeq>>
    /\ IF getActiveSubscriptionByStudent(studentId) = {}
       THEN inflight' = [inflight EXCEPT ![r] =
                            Respond(Arrived("renew", req, "getActiveSubscriptionByStudent"), 404)]
       ELSE \E a \in getActiveSubscriptionByStudent(studentId) :
            /\ room("subscriptions", subscriptions, MaxSubscriptions)
            /\ paidAmount > 0 => room("payments", payments, MaxPayments)
            /\ inflight' = [inflight EXCEPT ![r] =
                               Arrived("renew", req, "renewSubscription.update")
                                   @@ [activeSub |-> a,
                                       data |-> renewalData(subscriptions[a], req, pending),
                                       subscription |-> 0]]

RenewSubscriptionUpdate(r) ==
    /\ inflight[r].pc = "renewSubscription.update"
    /\ subscriptions' = expireActive(subscriptions, inflight[r].req.studentId)
    /\ inflight' = [inflight EXCEPT ![r].pc = "renewSubscription.insert"]
    /\ UNCHANGED <<libraries, shifts, seats, seatAllocations, students, payments, idSeq>>

\* The new row is inserted; with no amount paid the request is answered.
RenewSubscriptionInsert(r) ==
    LET me == inflight[r]
        paid == me.req.paidAmount
        subscription == nextval("subscriptions")
    IN
    /\ me.pc = "renewSubscription.insert"
    /\ room("subscriptions", subscriptions, MaxSubscriptions)
    /\ idSeq' = advanced("subscriptions")
    /\ UNCHANGED <<libraries, shifts, seats, seatAllocations, students, payments>>
    /\ IF ~subscriptionInsertOk(students, me.data)
       THEN /\ UNCHANGED subscriptions
            /\ inflight' = [inflight EXCEPT ![r] = Respond(me, 500)]
       ELSE /\ subscriptions' = createSubscription(subscriptions, subscription, me.data)
            /\ inflight' = [inflight EXCEPT ![r] =
                  IF paid > 0
                  THEN [me EXCEPT !.pc = "createPayment", !.subscription = subscription]
                           @@ [payment |-> renewalPayment(me.req, subscription, paid)]
                  ELSE Respond([me EXCEPT !.subscription = subscription], 200)]

(***************************************************************************)
(* PATCH /api/subscriptions/:id/cancel: one update.                        *)
(***************************************************************************)
PatchSubscriptionsCancel(r, id) ==
    /\ Free(r)
    /\ subscriptions' = cancelSubscription(subscriptions, id)
    /\ inflight' = [inflight EXCEPT ![r] =
                       Respond(Arrived("cancel", [id |-> id], "cancelSubscription"), 200)]
    /\ UNCHANGED <<libraries, shifts, seats, seatAllocations, students, payments, idSeq>>

(***************************************************************************)
(* PATCH /api/subscriptions/:id/close, the request of the subscription     *)
(* list.  registerRoutes has no route for it: the request falls through to *)
(* what is mounted after the routes, which answers with 404 or with the    *)
(* page of the client, and no table is touched.                            *)
(***************************************************************************)
PatchSubscriptionsClose(r, id) ==
    /\ Free(r)
    /\ \E status \in {200, 404} :
          inflight' = [inflight EXCEPT ![r] =
                          Respond(Arrived("close", [id |-> id], "close"), status)]
    /\ UNCHANGED <<libraries, shifts, seats, seatAllocations, students, subscriptions, payments, idSeq>>

(***************************************************************************)
(* POST /api/payments: the body is passed to createPayment.                *)
(***************************************************************************)
PostPayments(r, libraryId, studentId, subscriptionId, amount, paymentDate) ==
    LET payment == [libraryId |-> libraryId, studentId |-> studentId,
                    subscriptionId |-> subscriptionId, amount |-> amount,
                    paymentDate |-> paymentDate]
    IN
    /\ Free(r)
    /\ InsertPayment(r, Arrived("payment", payment, "createPayment")
                            @@ [payment |-> payment])

(***************************************************************************)
(* GET /api/seats/vacant/:libraryId: the ids of the vacant seats; no       *)
(* library or no shift in the query gives the empty list.  The storage     *)
(* reads the seats of the library, then the occupied allocations.          *)
(***************************************************************************)
GetSeatsVacant(r, libraryId, shiftIds) ==
    LET req == [libraryId |-> libraryId, shiftIds |-> shiftIds] IN
    /\ Free(r)
    /\ UNCHANGED <<libraries, shifts, seats, seatAllocations, students, subscriptions, payments, idSeq>>
    /\ inflight' = [inflight EXCEPT ![r] =
          IF libraryId = 0 \/ shiftIds = {}
          THEN Respond(Arrived("vacant", req, "getVacantSeatsForShifts")
                           @@ [result |-> {}], 200)
          ELSE Arrived("vacant", req, "getVacantSeatsForShifts")
                   @@ [allSeats |-> getSeatsByLibrary(libraryId), result |-> {}]]

GetSeatsVacantAllocations(r) ==
    LET me == inflight[r] IN
    /\ me.pc = "getVacantSeatsForShifts"
    /\ UNCHANGED <<libraries, shifts, seats, seatAllocations, students, subscriptions, payments, idSeq>>
    /\ inflight' = [inflight EXCEPT ![r] =
          Respond([me EXCEPT !.result =
                      getVacantSeatsForShifts(me.allSeats, seatAllocations,
                                              me.req.shiftIds)], 200)]

(***************************************************************************)
(* PATCH /api/students/:id: the fields of the body are written to the      *)
(* student row; a soft deletion writes isActive = false.                   *)
(***************************************************************************)
PatchStudents(r, id, data) ==
    /\ Free(r)
    /\ UNCHANGED <<libraries, shifts, seats, seatAllocations, subscriptions, payments, idSeq>>
    /\ IF ~studentUpdateOk(students, id, data)
       THEN /\ UNCHANGED students
            /\ inflight' = [inflight EXCEPT ![r] =
                  Respond(Arrived("updateStudent", [id |-> id, data |-> data],
                                  "updateStudent"), 500)]
       ELSE /\ students' = updateStudent(students, id, data)
            /\ inflight' = [inflight EXCEPT ![r] =
                  Respond(Arrived("updateStudent", [id |-> id, data |-> data],
                                  "updateStudent"), 200)]

(***************************************************************************)
(* POST /api/libraries/onboard: onboardLibrary inserts the library, its    *)
(* four shifts, its seats and its admin user, one statement after the      *)
(* other.  The users table is not part of the model: the insert of the     *)
(* user succeeds, or throws when the name of the user is taken.            *)
(***************************************************************************)
PostLibrariesOnboard(r, totalSeats) ==
    /\ Free(r)
    /\ Len(libraries) < MaxLibraries
    /\ libraries' = createLibrary(libraries, libraryRow(totalSeats))
    /\ inflight' = [inflight EXCEPT ![r] =
                       Arrived("onboard", [totalSeats |-> totalSeats], "createShift")
                           @@ [library |-> Len(libraries'), k |-> 1, i |-> 1]]
    /\ UNCHANGED <<shifts, seats, seatAllocations, students, subscriptions, payments, idSeq>>

OnboardLibraryCreateShift(r) ==
    LET me == inflight[r] IN
    /\ me.pc = "createShift"
    /\ shifts' = createShift(shifts, shiftRow(me.library, me.k))
    /\ inflight' = [inflight EXCEPT ![r] =
          IF me.k < Len(shiftData) THEN [me EXCEPT !.k = me.k + 1]
          ELSE IF me.i <= me.req.totalSeats THEN [me EXCEPT !.pc = "createSeat"]
          ELSE [me EXCEPT !.pc = "createUser"]]
    /\ UNCHANGED <<libraries, seats, seatAllocations, students, subscriptions, payments, idSeq>>

OnboardLibraryCreateSeat(r) ==
    LET me == inflight[r] IN
    /\ me.pc = "createSeat"
    /\ seats' = createSeat(seats, seatRow(me.library, me.i))
    /\ inflight' = [inflight EXCEPT ![r] =
          [me EXCEPT !.i = me.i + 1,
                     !.pc = IF me.i + 1 <= me.req.totalSeats
                            THEN "createSeat" ELSE "createUser"]]
    /\ UNCHANGED <<libraries, shifts, seatAllocations, students, subscriptions, payments, idSeq>>

OnboardLibraryCreateUser(r) ==
    /\ inflight[r].pc = "createUser"
    /\ \E status \in {200, 500} :
          inflight' = [inflight EXCEPT ![r] = Respond(inflight[r], status)]
    /\ UNCHANGED <<libraries, shifts, seats, seatAllocations, students, subscriptions, payments, idSeq>>

(***************************************************************************)
(* DELETE /api/libraries/:id: the library is marked inactive.              *)
(***************************************************************************)
DeleteLibraries(r, id) ==
    /\ Free(r)
    /\ libraries' = deleteLibrary(libraries, id)
    /\ inflight' = [inflight EXCEPT ![r] =
                       Respond(Arrived("deleteLibrary", [id |-> id], "deleteLibrary"), 200)]
    /\ UNCHANGED <<shifts, seats, seatAllocations, students, subscriptions, payments, idSeq>>

(***************************************************************************)
(* Operations of the exported storage that no handler calls.  They are the *)
(* only operations that write the seat_allocations table or an arbitrary   *)
(* column of a subscription or of a library.  A call that returns is       *)
(* recorded with 200, a call that throws with 500.                         *)
(***************************************************************************)
StorageUpdateLibrary(r, id, data) ==
    /\ Free(r)
    /\ libraries' = updateLibrary(libraries, id, data)
    /\ inflight' = [inflight EXCEPT ![r] =
          Respond(Arrived("updateLibrary", [id |-> id, data |-> data], "updateLibrary"), 200)]
    /\ UNCHANGED <<shifts, seats, seatAllocations, students, subscriptions, payments, idSeq>>

StorageCreateSeatAllocation(r, seatId, shiftId, studentId, status, gender) ==
    LET data == [seatId |-> seatId, shiftId |-> shiftId, studentId |-> studentId,
                 status |-> status, gender |-> gender, isActive |-> TRUE]
        me == Arrived("createSeatAllocation", data, "createSeatAllocation")
    IN
    /\ Free(r)
    /\ room("seatAllocations", seatAllocations, MaxAllocations)
    /\ idSeq' = advanced("seatAllocations")
    /\ UNCHANGED <<libraries, shifts, seats, students, subscriptions, payments>>
    /\ IF ~seatAllocationInsertOk(data)
       THEN /\ UNCHANGED seatAllocations
            /\ inflight' = [inflight EXCEPT ![r] = Respond(me, 500)]
       ELSE /\ seatAllocations' = createSeatAllocation(seatAllocations, nextval("seatAllocations"), data)
            /\ inflight' = [inflight EXCEPT ![r] = Respond(me, 200)]

StorageDeleteSeatAllocationsForStudent(r, studentId) ==
    /\ Free(r)
    /\ seatAllocations' = deleteSeatAllocationsForStudent(seatAllocations, studentId)
    /\ inflight' = [inflight EXCEPT ![r] =
          Respond(Arrived("deleteSeatAllocationsForStudent", [studentId |-> studentId],
                          "deleteSeatAllocationsForStudent"), 200)]
    /\ UNCHANGED <<libraries, shifts, seats, students, subscriptions, payments, idSeq>>

StorageUpdateSubscription(r, id, data) ==
    LET me == Arrived("updateSubscription", [id |-> id, data |-> data],
                      "updateSubscription")
    IN
    /\ Free(r)
    /\ UNCHANGED <<libraries, shifts, seats, seatAllocations, students, payments, idSeq>>
    /\ IF ~subscriptionUpdateOk(subscriptions, id, data)
       THEN /\ UNCHANGED subscriptions
            /\ inflight' = [inflight EXCEPT ![r] = Respond(me, 500)]
       ELSE /\ subscriptions' = updateSubscription(subscriptions, id, data)
            /\ inflight' = [inflight EXCEPT ![r] = Respond(me, 200)]

(***************************************************************************)
(* The statements that continue a request, of any connection.              *)
(***************************************************************************)
CreateStudent == \E r \in Requests : PostStudentsCreateStudent(r)

GetShifts == \E r \in Requests : PostStudentsGetShiftsByLibrary(r)

CreateSubscription == \E r \in Requests : PostStudentsCreateSubscription(r)

RegistrationSteps == CreateStudent \/ GetShifts \/ CreateSubscription

RenewUpdate == \E r \in Requests : RenewSubscriptionUpdate(r)

RenewInsert == \E r \in Requests : RenewSubscriptionInsert(r)

RenewalSteps == RenewUpdate \/ RenewInsert

PaymentInsert == \E r \in Requests : CreatePaymentInsert(r)

PaymentSelect == \E r \in Requests : CreatePaymentSelect(r)

PaymentUpdate == \E r \in Requests : CreatePaymentUpdate(r)

\* The statements of createPayment after its insert.
PaymentLedgerSteps == PaymentSelect \/ PaymentUpdate

PaymentSteps == PaymentInsert \/ PaymentLedgerSteps

VacantAllocations == \E r \in Requests : GetSeatsVacantAllocations(r)

OnboardShift == \E r \in Requests : OnboardLibraryCreateShift(r)

OnboardSeat == \E r \in Requests : OnboardLibraryCreateSeat(r)

OnboardUser == \E r \in Requests : OnboardLibraryCreateUser(r)

OnboardingSteps == OnboardShift \/ OnboardSeat \/ OnboardUser

(***************************************************************************)
(* Sequential requests: one client sends registrations, renewals,          *)
(* cancellations and payments, each after the answer to the one before.    *)
(***************************************************************************)
\* The ids of the students of one client, whose inserts of students are not
\* refused, and the ids a student can have after a refused insert left a gap.
StudentIds == 1..MaxStudents
AnyStudentIds == 1..(MaxStudents + MaxRefused)
SubscriptionIds == 1..MaxSubscriptions

\* Morning alone, or Morning and Evening, of library 1.
RequestShiftSets == {{1}, {1, 3}}
RequestSeats == {1, 2}
\* The library whose users send the requests.
RequestLibraries == {1}

Register ==
    \E r \in Sequential, libraryId \in RequestLibraries, shiftIds \in RequestShiftSets,
       seatId \in RequestSeats, plan \in Plans :
        PostStudents(r, libraryId, shiftIds, seatId, RequestPeriod.start, RequestPeriod.end,
                     plan.cost, plan.paid, plan.discount, "female")

Renew ==
    \E r \in Sequential, studentId \in StudentIds, libraryId \in RequestLibraries,
       plan \in Plans :
        PostSubscriptionsRenew(r, studentId, libraryId, RequestPeriod.start,
                               RequestPeriod.end, plan.cost, plan.paid, plan.discount)

Cancel == \E r \in Sequential, id \in SubscriptionIds : PatchSubscriptionsCancel(r, id)

Pay ==
    \E r \in Sequential, libraryId \in RequestLibraries,
       subscriptionId \in DOMAIN subscriptions, amount \in PaymentAmounts,
       paymentDate \in PaymentDates :
        PostPayments(r, libraryId, 1, subscriptionId, amount, paymentDate)

Next ==
    \/ Register
    \/ Renew
    \/ Cancel
    \/ Pay
    \/ RegistrationSteps
    \/ RenewalSteps
    \/ PaymentSteps

Spec == Init /\ [][Next]_vars

(***************************************************************************)
(* Registrations together with the storage operations on seat allocations: *)
(* the seat and the shifts of a registration vary, nothing is paid.        *)
(***************************************************************************)
AllocShiftSets == {{1}, {3}, {1, 3}}
AllocShifts == {1, 3}
UnpaidPlan == [cost |-> 1000, paid |-> 0, discount |-> 300]

RegisterSeat ==
    \E r \in Sequential, shiftIds \in AllocShiftSets, seatId \in RequestSeats,
       gender \in Genders :
        PostStudents(r, 1, shiftIds, seatId, RequestPeriod.start, RequestPeriod.end,
                     UnpaidPlan.cost, UnpaidPlan.paid, UnpaidPlan.discount, gender)

\* The caller passes the gender of the student the seat is allocated to.
Allocate ==
    \E r \in Sequential, seatId \in RequestSeats, shiftId \in AllocShifts,
       studentId \in DOMAIN students \cup {NULL}, status \in {"occupied", "blocked"} :
        StorageCreateSeatAllocation(r, seatId, shiftId, studentId, status,
            IF studentId \in DOMAIN students THEN students[studentId].gender ELSE "male")

Deallocate ==
    \E r \in Sequential, studentId \in StudentIds :
        StorageDeleteSeatAllocationsForStudent(r, studentId)

NextAlloc == RegisterSeat \/ Allocate \/ Deallocate \/ RegistrationSteps

SpecAlloc == Init /\ [][NextAlloc]_vars

(***************************************************************************)
(* The vacancy query: the seats are the ones onboarding inserted, vacant   *)
(* and active, and allocations come and go through the storage operations. *)
(***************************************************************************)
RegisterOne ==
    \E r \in Sequential :
        PostStudents(r, 1, {1}, 1, RequestPeriod.start, RequestPeriod.end,
                     UnpaidPlan.cost, UnpaidPlan.paid, UnpaidPlan.discount, "female")

\* A seat is allocated to student 1 in a shift, or blocked for no student.
FirstAllocations == {[studentId |-> 1, status |-> "occupied"],
                     [studentId |-> NULL, status |-> "blocked"]}

AllocateFirst ==
    \E r \in Sequential, seatId \in RequestSeats, shiftId \in AllocShifts,
       a \in FirstAllocations :
        StorageCreateSeatAllocation(r, seatId, shiftId, a.studentId, a.status, "female")

QueryVacant ==
    \E r \in Sequential, libraryId \in Libraries, shiftIds \in AllocShiftSets \cup {{}} :
        GetSeatsVacant(r, libraryId, shiftIds)

NextVacant ==
    \/ RegisterOne
    \/ AllocateFirst
    \/ Deallocate
    \/ QueryVacant
    \/ RegistrationSteps
    \/ VacantAllocations

SpecVacant == Init /\ [][NextVacant]_vars

(***************************************************************************)
(* The end of a subscription: registrations, cancel and close requests,    *)
(* and the storage operation on subscriptions.                             *)
(***************************************************************************)
Close == \E r \in Sequential, id \in SubscriptionIds : PatchSubscriptionsClose(r, id)

\* An update of the storage that writes a status or a paid amount.
UpdateSubscriptionData == {[status |-> "closed"], [status |-> "active", paidAmount |-> 50]}

Update ==
    \E r \in Sequential, id \in SubscriptionIds, data \in UpdateSubscriptionData :
        StorageUpdateSubscription(r, id, data)

NextRelease ==
    \/ RegisterOne
    \/ Cancel
    \/ Close
    \/ Update
    \/ RegistrationSteps

SpecRelease == Init /\ [][NextRelease]_vars

(***************************************************************************)
(* Registrations and renewals whose plan dates vary with their amounts.    *)
(***************************************************************************)
RegisterDated ==
    \E r \in Sequential, shiftIds \in RequestShiftSets, seatId \in RequestSeats,
       period \in Periods, plan \in Plans :
        PostStudents(r, 1, shiftIds, seatId, period.start, period.end,
                     plan.cost, plan.paid, plan.discount, "female")

\* The library is a field of the body of the request, as the dates are.
RenewDated ==
    \E r \in Sequential, studentId \in StudentIds, libraryId \in Libraries,
       period \in Periods, plan \in Plans :
        PostSubscriptionsRenew(r, studentId, libraryId, period.start, period.end,
                               plan.cost, plan.paid, plan.discount)

NextDated ==
    \/ RegisterDated
    \/ RenewDated
    \/ RegistrationSteps
    \/ RenewalSteps
    \/ PaymentSteps

SpecDated == Init /\ [][NextDated]_vars

(***************************************************************************)
(* Registrations in any library that name shifts of any library, a shift   *)
(* that does not exist, or no shift at all, while a third library is       *)
(* onboarded: shift 1 is the morning of library 1, shift 5 the morning of  *)
(* library 2, and shift 9 is the morning of the third library once it is   *)
(* inserted.                                                               *)
(***************************************************************************)
AnyShiftSets == {{}, {1}, {5}, {1, 5}, {9}}
AnyLibraries == 1..MaxLibraries
OnboardSeats == {0, 1}

RegisterAnyShift ==
    \E r \in Sequential, libraryId \in AnyLibraries, shiftIds \in AnyShiftSets,
       plan \in Plans :
        PostStudents(r, libraryId, shiftIds, 1, RequestPeriod.start, RequestPeriod.end,
                     plan.cost, plan.paid, plan.discount, "female")

\* The super admin onboards a library on a connection of their own.
Onboard ==
    \E r \in Requests \ Sequential, totalSeats \in OnboardSeats :
        PostLibrariesOnboard(r, totalSeats)

NextShifts ==
    \/ RegisterAnyShift
    \/ Onboard
    \/ RegistrationSteps
    \/ PaymentSteps
    \/ OnboardingSteps

SpecShifts == Init /\ [][NextShifts]_vars

(***************************************************************************)
(* Two tenants: students are registered in either library, each on the     *)
(* first seat and the morning shift of its library, and the users of       *)
(* library 1 send cancel, payment and renewal requests that name any       *)
(* subscription or student, and updates that move a student.               *)
(***************************************************************************)
RegisterTenant ==
    \E r \in Sequential, libraryId \in Libraries, plan \in Plans :
        PostStudents(r, libraryId, {Len(shiftData) * (libraryId - 1) + 1},
                     TotalSeats * (libraryId - 1) + 1,
                     RequestPeriod.start, RequestPeriod.end,
                     plan.cost, plan.paid, plan.discount, "female")

PayAny ==
    \E r \in Sequential, libraryId \in RequestLibraries,
       subscriptionId \in SubscriptionIds, paymentDate \in PaymentDates :
        PostPayments(r, libraryId, 1, subscriptionId, 100, paymentDate)

\* An update that moves a student to the other library, or to a library that
\* does not exist.
Relocate ==
    \E r \in Sequential, id \in StudentIds, libraryId \in {2, MaxLibraries} :
        PatchStudents(r, id, [libraryId |-> libraryId])

NextTenant ==
    \/ RegisterTenant
    \/ Renew
    \/ Cancel
    \/ PayAny
    \/ Relocate
    \/ RegistrationSteps
    \/ RenewalSteps
    \/ PaymentSteps

SpecTenant == Init /\ [][NextTenant]_vars

(***************************************************************************)
(* Registrations that overlap, and updates of students.                    *)
(***************************************************************************)
RaceRegister ==
    \E r \in Requests, plan \in Plans :
        PostStudents(r, 1, {1}, 1, RequestPeriod.start, RequestPeriod.end,
                     plan.cost, plan.paid, plan.discount, "female")

SoftDelete ==
    \E r \in Requests, id \in AnyStudentIds : PatchStudents(r, id, [isActive |-> FALSE])

\* An update that writes the student code of a student to a student row.
Recode ==
    \E r \in Requests, id \in AnyStudentIds, other \in DOMAIN students :
        PatchStudents(r, id, [studentId |-> students[other].studentId])

NextRaceRegister ==
    \/ RaceRegister
    \/ SoftDelete
    \/ Recode
    \/ RegistrationSteps
    \/ PaymentSteps

SpecRaceRegister == Init /\ [][NextRaceRegister]_vars

(***************************************************************************)
(* Payments that overlap, on subscriptions registered without a payment.   *)
(***************************************************************************)
RegisterUnpaid ==
    \E r \in Requests :
        PostStudents(r, 1, {1}, 1, RequestPeriod.start, RequestPeriod.end,
                     UnpaidPlan.cost, UnpaidPlan.paid, UnpaidPlan.discount, "female")

RacePay ==
    \E r \in Requests, subscriptionId \in SubscriptionIds, amount \in PaymentAmounts,
       paymentDate \in PaymentDates :
        PostPayments(r, 1, 1, subscriptionId, amount, paymentDate)

NextRacePay == RegisterUnpaid \/ RacePay \/ RegistrationSteps \/ PaymentLedgerSteps

SpecRacePay == Init /\ [][NextRacePay]_vars

(***************************************************************************)
(* Requests whose inserts throw unless a third library is onboarded:       *)
(* registrations that name seat 9, which does not exist, and renewals that *)
(* name library 3.                                                         *)
(***************************************************************************)
FailureSeats == {1, 9}
FailureLibraries == {1, 3}

RegisterFailing ==
    \E r \in Sequential, seatId \in FailureSeats, plan \in Plans :
        PostStudents(r, 1, {1}, seatId, RequestPeriod.start, RequestPeriod.end,
                     plan.cost, plan.paid, plan.discount, "female")

RenewFailing ==
    \E r \in Sequential, studentId \in StudentIds, libraryId \in FailureLibraries :
        PostSubscriptionsRenew(r, studentId, libraryId, RequestPeriod.start, RequestPeriod.end,
                               UnpaidPlan.cost, UnpaidPlan.paid, UnpaidPlan.discount)

\* The super admin marks the first library inactive.
Offboard == \E r \in Requests \ Sequential : DeleteLibraries(r, 1)

\* The storage writes the number of seats of a library, or makes it active.
UpdateLibraryData == {[totalSeats |-> 5], [isActive |-> TRUE]}

Reconfigure ==
    \E r \in Requests \ Sequential, data \in UpdateLibraryData :
        StorageUpdateLibrary(r, 1, data)

NextFailure ==
    \/ RegisterFailing
    \/ RenewFailing
    \/ Onboard
    \/ Offboard
    \/ Reconfigure
    \/ RegistrationSteps
    \/ RenewalSteps
    \/ PaymentSteps
    \/ OnboardingSteps

SpecFailure == Init /\ [][NextFailure]_vars

(***************************************************************************)
(* Renewals that overlap, of students registered without a payment.        *)
(***************************************************************************)
RaceRenew ==
    \E r \in Requests, studentId \in AnyStudentIds, plan \in Plans :
        PostSubscriptionsRenew(r, studentId, 1, RequestPeriod.start,
                               RequestPeriod.end, plan.cost, plan.paid, plan.discount)

NextRaceRenew ==
    \/ RegisterUnpaid
    \/ RaceRenew
    \/ RegistrationSteps
    \/ RenewalSteps
    \/ PaymentSteps

SpecRaceRenew == Init /\ [][NextRaceRenew]_vars

(***************************************************************************)
(* Two clients: the renewals, cancellations and payments of one overlap    *)
(* the registrations, renewals, cancellations and payments of the other,   *)
(* statement by statement.                                                 *)
(***************************************************************************)
PaidPlan == [cost |-> 1000, paid |-> 400, discount |-> 0]

OverlapRegister ==
    \E r \in Sequential :
        PostStudents(r, 1, {1}, 1, RequestPeriod.start, RequestPeriod.end,
                     PaidPlan.cost, PaidPlan.paid, PaidPlan.discount, "female")

OverlapRenew ==
    \E r \in Requests, studentId \in StudentIds :
        PostSubscriptionsRenew(r, studentId, 1, RequestPeriod.start, RequestPeriod.end,
                               UnpaidPlan.cost, UnpaidPlan.paid, UnpaidPlan.discount)

OverlapCancel == \E r \in Requests, id \in SubscriptionIds : PatchSubscriptionsCancel(r, id)

OverlapPay ==
    \E r \in Requests, subscriptionId \in DOMAIN subscriptions, paymentDate \in PaymentDates :
        PostPayments(r, 1, 1, subscriptionId, 700, paymentDate)

NextOverlap ==
    \/ OverlapRegister
    \/ OverlapRenew
    \/ OverlapCancel
    \/ OverlapPay
    \/ RegistrationSteps
    \/ RenewalSteps
    \/ PaymentSteps

SpecOverlap == Init /\ [][NextOverlap]_vars

(***************************************************************************)
(* Properties.                                                             *)
(***************************************************************************)
\* The request of the client that sends its requests one after the other: the
\* one it is handling, or the one answered last.
last == inflight[1]

\* The active allocations with status occupied of a seat in a shift.
Occupants(seatId, shiftId) ==
    {a \in DOMAIN seatAllocations :
        /\ seatAllocations[a].seatId = seatId
        /\ seatAllocations[a].shiftId = shiftId
        /\ seatAllocations[a].status = "occupied"
        /\ seatAllocations[a].isActive}

ActiveSubscriptionsIn(subs, studentId) ==
    {i \in DOMAIN subs : subs[i].studentId = studentId /\ subs[i].status = "active"}

ActiveSubscriptionsOf(studentId) == ActiveSubscriptionsIn(subscriptions, studentId)

Owed(sub) == sub.subscriptionCost - sub.paidAmount - sub.discount

\* C1: every subscription row has pendingAmount = max(0, subscriptionCost -
\* paidAmount - discount), in every state that registrations, payments, renewals
\* and cancellations reach, between their statements as well.
C1_PendingInvariant ==
    \A i \in DOMAIN subscriptions :
        subscriptions[i].pendingAmount =
            (IF Owed(subscriptions[i]) > 0 THEN Owed(subscriptions[i]) ELSE 0)

\* A payment has overpaid one subscription (its pending amount is floored at 0)
\* while another subscription still owes money.
C1_Witness ==
    /\ last.op = "payment" /\ last.status = 200
    /\ Owed(subscriptions[last.req.subscriptionId]) < 0
    /\ \E j \in DOMAIN subscriptions : subscriptions[j].pendingAmount > 0

\* The active subscriptions that hold a seat in a shift.
Holders(subs, seatId, shiftId) ==
    {i \in DOMAIN subs :
        /\ subs[i].seatId = seatId
        /\ shiftId \in subs[i].shiftIds
        /\ subs[i].status = "active"}

\* C2: in every state the requests reach, for every seat and shift at most one
\* allocation row is active with status occupied.  No request writes the
\* seat_allocations table, so the rows that could break this are never inserted.
C2_OneOccupantPerSeatShift ==
    \A seatId \in DOMAIN seats, shiftId \in DOMAIN shifts :
        Cardinality(Occupants(seatId, shiftId)) <= 1

\* Two students were registered on seat 1 for the morning, both with 200: the
\* requests that are to allocate the same seat and shift twice have been served.
C2_Witness ==
    /\ last.op = "register" /\ last.status = 200
    /\ last.req.seatId = 1 /\ 1 \in last.req.shiftIds
    /\ Cardinality(Holders(subscriptions, 1, 1)) = 2
    /\ Cardinality(Occupants(1, 1)) <= 1

\* C3: over sequential registration, renewal, cancellation and payment requests a
\* student has at most one subscription with status active.
C3_OneActiveSubscription ==
    \A studentId \in DOMAIN students :
        Cardinality(ActiveSubscriptionsOf(studentId)) <= 1

\* A student was renewed: one active row and an expired predecessor.
C3_Witness ==
    /\ last.op = "renew" /\ last.status = 200
    /\ Cardinality(ActiveSubscriptionsOf(last.req.studentId)) = 1
    /\ \E i \in DOMAIN subscriptions :
          /\ subscriptions[i].studentId = last.req.studentId
          /\ subscriptions[i].status = "expired"

\* C4: a payment of amount P on an existing subscription with paid amount X sets
\* the paid amount to X + P and the pending amount to max(0, cost - (X + P) -
\* discount), which is not negative, and leaves cost and discount as they were.
C4_PaymentAdds ==
    (last.op = "payment" /\ last.status = 200) =>
        LET id == last.req.subscriptionId
            P == last.req.amount
            before == last.before.subscriptions[id]
            X == before.paidAmount
            after == subscriptions[id]
        IN  /\ after.paidAmount = X + P
            /\ after.pendingAmount =
                  (IF before.subscriptionCost - (X + P) - before.discount > 0
                   THEN before.subscriptionCost - (X + P) - before.discount
                   ELSE 0)
            /\ after.pendingAmount >= 0
            /\ after.subscriptionCost = before.subscriptionCost
            /\ after.discount = before.discount

\* A second payment was added to a subscription that already carried a paid amount
\* and a discount.
C4_Witness ==
    /\ last.op = "payment" /\ last.status = 200
    /\ last.before.subscriptions[last.req.subscriptionId].paidAmount > 0
    /\ subscriptions[last.req.subscriptionId].discount > 0
    /\ subscriptions[last.req.subscriptionId].pendingAmount > 0

\* C5: after a registration with cost c, paid amount p and discount d the stored
\* subscription has paidAmount = p and pendingAmount = max(0, c - p - d).
C5_RegistrationAmounts ==
    (last.op = "register" /\ last.status = 200) =>
        LET sub == subscriptions[last.subscription]
            c == last.req.subscriptionCost
            p == last.req.paidAmount
            d == last.req.discount
        IN  /\ sub.paidAmount = p
            /\ sub.pendingAmount = (IF c - p - d > 0 THEN c - p - d ELSE 0)

C7_OtherShiftSucceeds ==
    (/\ last.op = "register" /\ last.pc = "done"
     /\ \A sh \in last.req.shiftIds : Occupants(last.req.seatId, sh) = {}
     /\ \E sh \in DOMAIN shifts :
           /\ sh \notin last.req.shiftIds
           /\ Occupants(last.req.seatId, sh) # {}) =>
        /\ last.status = 200
        /\ last.subscription \in DOMAIN subscriptions
        /\ subscriptions[last.subscription].seatId = last.req.seatId
        /\ subscriptions[last.subscription].shiftIds = last.req.shiftIds
        /\ subscriptions[last.subscription].studentId = last.student
        /\ subscriptions[last.subscription].status = "active"

\* Seat 1 is occupied in the morning by the first student, and the second student
\* was registered on seat 1 for the evening.
C7_Witness ==
    /\ last.op = "register" /\ last.status = 200
    /\ last.req.seatId = 1 /\ last.req.shiftIds = {3}
    /\ Occupants(1, 3) = {}
    /\ \E a \in Occupants(1, 1) :
          /\ seatAllocations[a].studentId # NULL
          /\ seatAllocations[a].studentId # last.student

\* C8: the query with a non-empty set of shifts returns exactly the active seats
\* of the library that are not blocked and have no active occupied allocation in
\* any requested shift; a seat occupied in one requested shift is left out even
\* if it is free in the others, and a blocked seat is never returned.  The seats
\* are the rows onboarding inserted: no code writes another status to a seat.
C8_VacantSeats ==
    (last.op = "vacant" /\ last.pc = "done" /\ last.req.shiftIds # {}) =>
        /\ last.result \subseteq DOMAIN seats
        /\ \A s \in DOMAIN seats :
              s \in last.result <=>
                  /\ seats[s].libraryId = last.req.libraryId
                  /\ seats[s].isActive
                  /\ seats[s].status # "blocked"
                  /\ \A sh \in last.req.shiftIds : Occupants(s, sh) = {}
        /\ \A s \in last.result : seats[s].status # "blocked"

\* Morning and evening were asked for: a vacant seat occupied in the morning only
\* is left out, another seat is returned.
C8_Witness ==
    /\ last.op = "vacant" /\ last.pc = "done" /\ last.req.shiftIds = {1, 3}
    /\ last.result # {}
    /\ \E s \in DOMAIN seats :
          /\ seats[s].libraryId = last.req.libraryId
          /\ seats[s].isActive /\ seats[s].status = "vacant"
          /\ Occupants(s, 1) # {} /\ Occupants(s, 3) = {}
          /\ s \notin last.result

\* C9: after a successful registration every requested shift has exactly one
\* active occupied allocation of the seat, which carries the new student's id and
\* gender, and the seat is no longer vacant for any requested shift.
C9_RegistrationAllocates ==
    (last.op = "register" /\ last.status = 200) =>
        \A sh \in last.req.shiftIds :
            /\ Cardinality(Occupants(last.req.seatId, sh)) = 1
            /\ \A a \in Occupants(last.req.seatId, sh) :
                  /\ seatAllocations[a].studentId = last.student
                  /\ seatAllocations[a].gender = last.req.gender
            /\ last.req.seatId \notin
                  getVacantSeatsForShifts(getSeatsByLibrary(last.req.libraryId),
                                          seatAllocations, {sh})

\* C10: a successful renewal inserts exactly one subscription row, which is
\* active, and changes the status of exactly one earlier row, from active to a
\* status that is not active.
C10_RenewalRows ==
    (last.op = "renew" /\ last.status = 200) =>
        LET old == last.before.subscriptions
            changed == {i \in DOMAIN old : subscriptions[i].status # old[i].status}
            inserted == DOMAIN subscriptions \ DOMAIN old
        IN  /\ Cardinality(inserted) = 1
            /\ \A i \in inserted : subscriptions[i].status = "active"
            /\ Cardinality(changed) = 1
            /\ \A i \in changed :
                  /\ old[i].status = "active"
                  /\ subscriptions[i].status # "active"

\* A student was renewed while the other student holds an active subscription.
C10_Witness ==
    /\ last.op = "renew" /\ last.status = 200
    /\ \E j \in DOMAIN subscriptions :
          /\ subscriptions[j].studentId # last.req.studentId
          /\ subscriptions[j].status = "active"

\* C11: a successful renewal sets the status of the subscription that was the
\* student's active one to expired.
C11_PredecessorExpired ==
    (last.op = "renew" /\ last.status = 200) =>
        /\ last.before.subscriptions[last.activeSub].status = "active"
        /\ last.before.subscriptions[last.activeSub].studentId = last.req.studentId
        /\ subscriptions[last.activeSub].status = "expired"

\* A student was renewed twice: two predecessors are expired, the newest row is
\* active.
C11_Witness ==
    /\ last.op = "renew" /\ last.status = 200
    /\ subscriptions[last.activeSub].status = "expired"
    /\ \E i \in DOMAIN subscriptions :
          /\ i # last.activeSub
          /\ subscriptions[i].studentId = last.req.studentId
          /\ subscriptions[i].status = "expired"
    /\ subscriptions[last.subscription].status = "active"

\* C12: the row a successful renewal inserts has the seat, the shifts, the total
\* hours and the time range of the student's active subscription it replaces, and
\* belongs to the same student and the same library: only the plan dates, the
\* cost, the paid amount, the discount and the pending amount are new, and the
\* dates, the cost and the discount are those of the request.
C12_RenewalCopies ==
    (last.op = "renew" /\ last.status = 200) =>
        \A i \in ActiveSubscriptionsIn(last.before.subscriptions, last.req.studentId) :
            LET old == last.before.subscriptions[i]
                new == subscriptions[last.subscription]
            IN  /\ last.subscription \notin DOMAIN last.before.subscriptions
                /\ new.seatId = old.seatId
                /\ new.shiftIds = old.shiftIds
                /\ new.totalHours = old.totalHours
                /\ new.shiftStart = old.shiftStart
                /\ new.shiftEnd = old.shiftEnd
                /\ new.studentId = old.studentId
                /\ new.libraryId = old.libraryId
                /\ new.planStartDate = last.req.planStartDate
                /\ new.planEndDate = last.req.planEndDate
                /\ new.subscriptionCost = last.req.subscriptionCost
                /\ new.discount = last.req.discount

\* C13: a renewal request for a student without a subscription of status active
\* fails with an error status and changes no table: no subscription row is
\* inserted or updated and no payment row is created.
C13_RenewalNeedsActive ==
    (/\ last.op = "renew" /\ last.pc = "done"
     /\ ActiveSubscriptionsIn(last.before.subscriptions, last.req.studentId) = {}) =>
        /\ last.status >= 400
        /\ subscriptions = last.before.subscriptions
        /\ payments = last.before.payments
        /\ students = last.before.students

\* A renewal was refused for a student whose only subscription is cancelled.
C13_Witness ==
    /\ last.op = "renew" /\ last.status = 404
    /\ last.req.studentId \in DOMAIN students
    /\ \E i \in DOMAIN subscriptions :
          /\ subscriptions[i].studentId = last.req.studentId
          /\ subscriptions[i].status = "cancelled"
    /\ ActiveSubscriptionsOf(last.req.studentId) = {}

\* The active allocations that hold the seat of a subscription for its student in
\* one of its shifts.
AllocationsOf(sub, allocs) ==
    {a \in DOMAIN allocs :
        /\ allocs[a].studentId = sub.studentId
        /\ allocs[a].seatId = sub.seatId
        /\ allocs[a].shiftId \in sub.shiftIds
        /\ allocs[a].isActive}

\* C14: cancelling an active subscription sets its status to cancelled and frees
\* its seat: afterwards no active allocation row remains for the subscription's
\* student on its seat and shifts, and the vacancy query returns the seat for
\* the shifts of the subscription.  No request writes an allocation row, so the
\* cancellation has none to deactivate.
C14_CancelFreesSeat ==
    (/\ last.op = "cancel" /\ last.pc = "done"
     /\ last.req.id \in DOMAIN last.before.subscriptions
     /\ last.before.subscriptions[last.req.id].status = "active") =>
        LET sub == subscriptions[last.req.id]
        IN  /\ sub.status = "cancelled"
            /\ AllocationsOf(sub, seatAllocations) = {}
            /\ sub.seatId \in getVacantSeatsForShifts(getSeatsByLibrary(sub.libraryId),
                                                       seatAllocations, sub.shiftIds)

\* The subscription of the student registered on seat 1 for the morning was
\* active and has been cancelled.
C14_Witness ==
    /\ last.op = "cancel" /\ last.pc = "done" /\ last.status = 200
    /\ last.req.id \in DOMAIN last.before.subscriptions
    /\ last.before.subscriptions[last.req.id].status = "active"
    /\ subscriptions[last.req.id].seatId = 1
    /\ subscriptions[last.req.id].shiftIds = {1}
    /\ subscriptions[last.req.id].status = "cancelled"

\* C15: closing an active subscription sets its status to closed and frees its
\* seat as cancel is to free it: no active allocation row remains for the
\* subscription's student on its seat and shifts.
C15_CloseFreesSeat ==
    (/\ last.op = "close" /\ last.pc = "done"
     /\ last.req.id \in DOMAIN last.before.subscriptions
     /\ last.before.subscriptions[last.req.id].status = "active") =>
        /\ subscriptions[last.req.id].status = "closed"
        /\ AllocationsOf(subscriptions[last.req.id], seatAllocations) = {}

TerminalStatuses == {"cancelled", "closed", "expired", "renewed"}

\* C16: once a subscription is in a terminal status (cancelled, closed, expired,
\* renewed), a later request to cancel or close it, or to renew it when it is the
\* student's latest, fails with an error status and leaves its status unchanged.
C16_TerminalRejects ==
    /\ (/\ last.op \in {"cancel", "close"} /\ last.pc = "done"
        /\ last.req.id \in DOMAIN last.before.subscriptions
        /\ last.before.subscriptions[last.req.id].status \in TerminalStatuses) =>
            /\ last.status >= 400
            /\ subscriptions[last.req.id].status
                   = last.before.subscriptions[last.req.id].status
    /\ (/\ last.op = "renew" /\ last.pc = "done"
        /\ ActiveSubscriptionsIn(last.before.subscriptions, last.req.studentId) = {}) =>
            /\ last.status >= 400
            /\ \A i \in DOMAIN last.before.subscriptions :
                  subscriptions[i].status = last.before.subscriptions[i].status

\* C17: no subscription row moves from a status that is not active back to
\* active: no statement of a request makes a row that is not active active
\* again, and a renewal leaves every earlier row of the student not active.
C17_NeverReactivated ==
    [][/\ \A i \in DOMAIN subscriptions :
             /\ i \in DOMAIN subscriptions'
             /\ subscriptions[i].status # "active" => subscriptions'[i].status # "active"
       /\ (last'.op = "renew" /\ last'.status = 200) =>
             \A i \in DOMAIN last'.before.subscriptions :
                 last'.before.subscriptions[i].studentId = last'.req.studentId
                     => subscriptions'[i].status # "active"]_vars

\* A row expired by a renewal was cancelled afterwards, and its successor was
\* renewed in turn: the student's two earlier rows are not active, the third is.
C17_Witness ==
    /\ last.op = "renew" /\ last.status = 200
    /\ \E i, j \in DOMAIN subscriptions :
          /\ i < j /\ j < last.subscription
          /\ subscriptions[i].studentId = last.req.studentId
          /\ subscriptions[j].studentId = last.req.studentId
          /\ subscriptions[i].status = "cancelled"
          /\ subscriptions[j].status = "expired"
    /\ subscriptions[last.subscription].status = "active"

\* C18: a payment against a subscription whose status is terminal (cancelled,
\* closed, expired or renewed) does not change the paid amount or the pending
\* amount of that subscription.
C18_TerminalAmountsFrozen ==
    (/\ last.op = "payment" /\ last.pc = "done"
     /\ last.req.subscriptionId \in DOMAIN last.before.subscriptions
     /\ last.before.subscriptions[last.req.subscriptionId].status \in TerminalStatuses) =>
        LET before == last.before.subscriptions[last.req.subscriptionId]
            after == subscriptions[last.req.subscriptionId]
        IN  /\ after.paidAmount = before.paidAmount
            /\ after.pendingAmount = before.pendingAmount

\* C19: a successful registration or renewal records exactly one payment row,
\* with the submitted paid amount, dated at the start of the plan and naming the
\* new subscription, if the submitted paid amount is greater than 0, and no
\* payment row otherwise.
C19_PaymentAtPlanStart ==
    (last.op \in {"register", "renew"} /\ last.status = 200) =>
        IF last.req.paidAmount > 0
        THEN LET inserted == DOMAIN payments \ DOMAIN last.before.payments
             IN  /\ Cardinality(inserted) = 1
                 /\ \A k \in DOMAIN last.before.payments :
                       k \in DOMAIN payments /\ payments[k] = last.before.payments[k]
                 /\ \A k \in inserted :
                       /\ payments[k].amount = last.req.paidAmount
                       /\ payments[k].paymentDate = last.req.planStartDate
                       /\ payments[k].subscriptionId = last.subscription
        ELSE payments = last.before.payments

\* A registration that paid on day 10 was renewed with a plan that starts on day
\* 20 and pays again: two payment rows, dated 10 and 20; another subscription,
\* which paid nothing, has no payment row.
C19_Witness ==
    /\ last.op = "renew" /\ last.status = 200
    /\ last.req.paidAmount > 0 /\ last.req.planStartDate = 20
    /\ DOMAIN payments = {1, 2}
    /\ payments[1].paymentDate = 10
    /\ payments[1].subscriptionId = last.activeSub
    /\ payments[2].paymentDate = 20
    /\ payments[2].subscriptionId = last.subscription
    /\ \E i \in DOMAIN subscriptions :
          subscriptions[i].paidAmount = 0 /\ \A k \in DOMAIN payments :
                                                payments[k].subscriptionId # i

\* C20: a registration that names a shift which is not a shift of the target
\* library (a shift of another library, or one that does not exist) is rejected
\* and creates no student, subscription or payment row.
C20_ShiftsValidated ==
    (/\ last.op = "register" /\ last.pc = "done"
     /\ ~(last.req.shiftIds \subseteq getShiftsByLibrary(last.req.libraryId))) =>
        /\ last.status >= 400
        /\ students = last.before.students
        /\ subscriptions = last.before.subscriptions
        /\ payments = last.before.payments

\* C21: a registration with an empty set of shifts is rejected with a validation
\* error and creates no student or subscription row.
C21_EmptyShiftsRejected ==
    (last.op = "register" /\ last.pc = "done" /\ last.req.shiftIds = {}) =>
        /\ last.status >= 400 /\ last.status < 500
        /\ students = last.before.students
        /\ subscriptions = last.before.subscriptions

\* C22: a cancel, payment or renewal request of a user of one library that names
\* a subscription or a student of another library fails with not found and
\* leaves the subscriptions and the payments as they were.
C22_TenantIsolation ==
    /\ (/\ last.op = "cancel" /\ last.pc = "done"
        /\ last.req.id \in DOMAIN last.before.subscriptions
        /\ last.before.subscriptions[last.req.id].libraryId \notin RequestLibraries) =>
            /\ last.status = 404
            /\ subscriptions = last.before.subscriptions
    /\ (/\ last.op = "payment" /\ last.pc = "done"
        /\ last.req.subscriptionId \in DOMAIN last.before.subscriptions
        /\ last.before.subscriptions[last.req.subscriptionId].libraryId
               \notin RequestLibraries) =>
            /\ last.status = 404
            /\ subscriptions = last.before.subscriptions
            /\ payments = last.before.payments
    /\ (/\ last.op = "renew" /\ last.pc = "done"
        /\ last.req.studentId \in DOMAIN last.before.students
        /\ last.before.students[last.req.studentId].libraryId \notin RequestLibraries) =>
            /\ last.status = 404
            /\ subscriptions = last.before.subscriptions
            /\ payments = last.before.payments

\* C23: a generated student code is STD followed by the six-digit, zero-padded
\* decimal form of one more than the greatest student id the registration found
\* (of 1 when it found no student), and no two student rows have the same student
\* code, also after soft deletions, after refused inserts and when two
\* registrations read the same greatest id before either inserts.
C23_StudentCodesUnique ==
    /\ \A i, j \in DOMAIN students :
          i # j => students[i].studentId # students[j].studentId
    /\ \A r \in Requests :
          inflight[r].op = "register" =>
              /\ inflight[r].studentId.prefix = "STD"
              /\ Len(inflight[r].studentId.digits) = 6
              /\ \E m \in DOMAIN inflight[r].before.students \cup {0} :
                    /\ \A i \in DOMAIN inflight[r].before.students : i <= m
                    /\ inflight[r].studentId.digits = <<0, 0, 0, 0, 0, m + 1>>

\* Two registrations read the same greatest id; the first inserted its student,
\* who was soft-deleted afterwards, and the second was then refused by the unique
\* constraint on the student code.
C23_Witness ==
    \E r \in Requests :
        /\ inflight[r].op = "register" /\ inflight[r].status = 500
        /\ inflight[r].student = 0
        /\ \E i \in DOMAIN students :
              /\ students[i].studentId = inflight[r].studentId
              /\ ~students[i].isActive

\* C24: two registrations for the same seat that share a shift never both
\* succeed, however their reads and writes interleave: at most one of them ends
\* with an active subscription on that seat and shift.
C24_OneWinner ==
    \A r1, r2 \in Requests :
        (/\ r1 # r2
         /\ inflight[r1].op = "register" /\ inflight[r2].op = "register"
         /\ inflight[r1].pc = "done" /\ inflight[r2].pc = "done"
         /\ inflight[r1].req.seatId = inflight[r2].req.seatId
         /\ inflight[r1].req.shiftIds \cap inflight[r2].req.shiftIds # {}) =>
            ~(/\ inflight[r1].status = 200
              /\ inflight[r2].status = 200
              /\ subscriptions[inflight[r1].subscription].status = "active"
              /\ subscriptions[inflight[r2].subscription].status = "active")

\* C25: no update is lost when two payments overlap: for any interleaving of the
\* statements of two createPayment calls with amounts P1 and P2 on the same
\* subscription with paid amount X, once both have completed the paid amount is
\* X + P1 + P2.
C25_NoLostUpdate ==
    \A r1, r2 \in Requests :
        (/\ r1 # r2
         /\ inflight[r1].op = "payment" /\ inflight[r2].op = "payment"
         /\ inflight[r1].status = 200 /\ inflight[r2].status = 200
         /\ inflight[r1].req.subscriptionId = inflight[r2].req.subscriptionId
         /\ DOMAIN inflight[r1].before.payments
                \subseteq DOMAIN inflight[r2].before.payments) =>
            LET id == inflight[r1].req.subscriptionId
                X == inflight[r1].before.subscriptions[id].paidAmount
            IN  subscriptions[id].paidAmount =
                    X + inflight[r1].req.amount + inflight[r2].req.amount

\* C26: registration is all-or-nothing: a registration that reports a failure
\* leaves no row behind, so that afterwards every student row has a
\* subscription.
C26_RegistrationAtomic ==
    (last.op = "register" /\ last.status >= 400) =>
        /\ students = last.before.students
        /\ subscriptions = last.before.subscriptions
        /\ payments = last.before.payments
        /\ \A st \in DOMAIN students :
              \E i \in DOMAIN subscriptions : subscriptions[i].studentId = st

\* C27: renewal is atomic: when the insert of the successor fails, the
\* predecessor is still active afterwards, and the student is not left without
\* an active subscription.
C27_RenewalAtomic ==
    (last.op = "renew" /\ last.status >= 500) =>
        /\ subscriptions[last.activeSub].status = "active"
        /\ \E i \in DOMAIN subscriptions :
              /\ subscriptions[i].studentId = last.req.studentId
              /\ subscriptions[i].status = "active"

\* The sum of the amounts of the payment rows that name a subscription.
RECURSIVE PaymentsTotal(_, _)
PaymentsTotal(subscriptionId, ids) ==
    IF ids = {} THEN 0
    ELSE LET k == CHOOSE x \in ids : TRUE
         IN  PaymentsTotal(subscriptionId, ids \ {k})
                + (IF payments[k].subscriptionId = subscriptionId
                   THEN payments[k].amount ELSE 0)

\* C28: whenever no request is between two of its statements, the paid amount of
\* every subscription is the sum of the amounts of the payment rows that name
\* it; a payment recorded at registration or renewal counts once.
C28_LedgerConsistent ==
    (\A r \in Requests : Free(r)) =>
        \A i \in DOMAIN subscriptions :
            subscriptions[i].paidAmount = PaymentsTotal(i, DOMAIN payments)

\* C29: over sequential registrations, renewals and cancellations no two active
\* subscriptions of different students have the same seat and share a shift.
C29_NoDoubleBooking ==
    \A i, j \in DOMAIN subscriptions :
        (/\ i # j
         /\ subscriptions[i].status = "active"
         /\ subscriptions[j].status = "active"
         /\ subscriptions[i].studentId # subscriptions[j].studentId
         /\ subscriptions[i].seatId = subscriptions[j].seatId) =>
            subscriptions[i].shiftIds \cap subscriptions[j].shiftIds = {}

\* C30: when two renewals of the same student overlap, in any interleaving of
\* their statements, the student does not have two subscriptions of status
\* active once both have completed.
C30_RenewalsLeaveOneActive ==
    \A r1, r2 \in Requests :
        (/\ r1 # r2
         /\ inflight[r1].op = "renew" /\ inflight[r2].op = "renew"
         /\ inflight[r1].pc = "done" /\ inflight[r2].pc = "done"
         /\ inflight[r1].req.studentId = inflight[r2].req.studentId) =>
            Cardinality(ActiveSubscriptionsOf(inflight[r1].req.studentId)) <= 1

====
